---- MODULE Spec2Model ----
(***************************************************************************)
(* Laptop Price Predictor (app.py): a Streamlit script that is re-run from *)
(* top to bottom on every user interaction.  What survives between runs is *)
(* st.session_state (history, show_history, prediction_made) and the       *)
(* widget values of the three sliders.  Every action below is one such     *)
(* script run, triggered by one user interaction.                          *)
(*                                                                         *)
(* Units: processor speed is counted in tenths of a GHz (the slider step   *)
(* is 0.1), RAM and storage in GB, prices in rupees.  With the slider      *)
(* steps of the program every impact term is a whole number of rupees:     *)
(* the processor term is a multiple of 120, the RAM term of 3000, the      *)
(* storage term of 450; the divisions below are therefore exact.           *)
(***************************************************************************)
EXTENDS Integers, Sequences, FiniteSets

VARIABLES
    history,            \* st.session_state.history: list of records
    show_history,       \* st.session_state.show_history
    prediction_made,    \* st.session_state.prediction_made
    processor_speed,    \* slider "Processor (GHz)", in tenths of a GHz
    ram_size,           \* slider "RAM (GB)"
    storage_capacity,   \* slider "Storage (GB)"
    model_price,        \* what model.predict(base_config)[0] returns
    price_box,          \* price box rendered by the last run: <<>> or <<final_price>>
    prediction_error    \* "Prediction error: ..." rendered by the last run

vars == <<history, show_history, prediction_made, processor_speed, ram_size,
          storage_capacity, model_price, price_box, prediction_error>>

----------------------------------------------------------------------------
\* Bounds of the model

\* number of predictions recorded in one session
MaxHistory == 6

\* slider settings the user moves between in a session: (tenths of GHz, GB, GB)
SessionSpecifications == {<<10, 4, 128>>, <<25, 8, 512>>, <<35, 16, 1024>>}

\* baselines of the loaded model in a session
SessionBaselines == {1000, 50000}

\* baselines of the loaded model for the pricing function over its whole domain
CalcBaselines == {-60000, 0, 1000, 8000, 50000}

----------------------------------------------------------------------------
\* The three sliders

ProcessorMin == 10
ProcessorMax == 60
RamMin == 4
RamMax == 64
RamStep == 4
StorageMin == 128
StorageMax == 2048
StorageStep == 128

ProcessorValues == ProcessorMin..ProcessorMax
RamValues == {r \in RamMin..RamMax : (r - RamMin) % RamStep = 0}
StorageValues == {s \in StorageMin..StorageMax : (s - StorageMin) % StorageStep = 0}

----------------------------------------------------------------------------
\* Enhanced price calculation

Max(a, b) == IF a >= b THEN a ELSE b
Min(a, b) == IF a <= b THEN a ELSE b

\* float(model.predict(base_config)[0]) for base_config = [[2.5, 8, 512]]
base_price == model_price

\* (processor - 2.5) * 1200, processor in tenths of a GHz
processor_impact(processor) == ((processor - 25) * 1200) \div 10

ram_impact_700(ram) == (ram - 8) * 700
\* (ram - 8) * 750
ram_impact(ram) == (ram - 8) * 750

storage_impact_neg(storage) == ((512 - storage) * 1800) \div 512
\* (storage - 512) / 512 * 1800
storage_impact(storage) == ((storage - 512) * 1800) \div 512

final_price_of(processor, ram, storage) ==
    base_price + processor_impact(processor) + ram_impact(ram) + storage_impact(storage)

calculate_enhanced_price_nofloor(processor, ram, storage) ==
    final_price_of(processor, ram, storage)
\* return max(final_price, 8000)
calculate_enhanced_price(processor, ram, storage) ==
    Max(final_price_of(processor, ram, storage), 8000)

----------------------------------------------------------------------------
\* Which parts of the page a run renders

\* if not st.session_state.prediction_made: the Predict Price button
PredictAvailable == ~prediction_made

\* if st.session_state.prediction_made: Predict Again and History buttons
AfterPredictionOptions == prediction_made

HistoryDisplayed_nonempty == history # <<>>
\* if st.session_state.history and st.session_state.show_history:
\* the history section, with the Clear History button in it
HistoryDisplayed == history # <<>> /\ show_history

\* the Clear History button is created inside the history section
ClearHistoryAvailable == HistoryDisplayed

FirstN(h, n) == SubSeq(h, 1, Min(n, Len(h)))
\* h[-n:]
LastN(h, n) == SubSeq(h, Max(1, Len(h) - n + 1), Len(h))

\* reversed(s)
Reversed(s) == [i \in 1..Len(s) |-> s[Len(s) + 1 - i]]

\* the cards of the history section, top to bottom
DisplayedHistory ==
    IF HistoryDisplayed THEN Reversed(LastN(history, 5)) ELSE <<>>

----------------------------------------------------------------------------
\* Session state after the first run: the defaults of lines 68-73 and of the sliders

Init ==
    /\ history = <<>>
    /\ show_history = FALSE
    /\ prediction_made = FALSE
    /\ processor_speed = 25
    /\ ram_size = 8
    /\ storage_capacity = 512
    /\ model_price \in SessionBaselines
    /\ price_box = <<>>
    /\ prediction_error = FALSE

\* The user moves the sliders; the script re-runs with no button pressed
ChangeInputs ==
    /\ \E spec \in SessionSpecifications :
         /\ <<processor_speed, ram_size, storage_capacity>> # spec
         /\ processor_speed' = spec[1]
         /\ ram_size' = spec[2]
         /\ storage_capacity' = spec[3]
    /\ price_box' = <<>>
    /\ prediction_error' = FALSE
    /\ UNCHANGED <<history, show_history, prediction_made, model_price>>

PredictPrice_prepend ==
    /\ PredictAvailable
    /\ Len(history) < MaxHistory
    /\ LET final_price == calculate_enhanced_price(processor_speed, ram_size, storage_capacity)
           record == [Processor |-> processor_speed, RAM |-> ram_size,
                      Storage |-> storage_capacity, Price |-> final_price]
       IN /\ history' = <<record>> \o history
          /\ price_box' = <<final_price>>
    /\ show_history' = TRUE
    /\ prediction_made' = TRUE
    /\ prediction_error' = FALSE
    /\ UNCHANGED <<processor_speed, ram_size, storage_capacity, model_price>>
\* Predict Price pressed and the prediction succeeds
PredictPrice ==
    /\ PredictAvailable
    /\ Len(history) < MaxHistory
    /\ LET final_price == calculate_enhanced_price(processor_speed, ram_size, storage_capacity)
           record == [Processor |-> processor_speed, RAM |-> ram_size,
                      Storage |-> storage_capacity, Price |-> final_price]
       IN /\ history' = Append(history, record)
          /\ price_box' = <<final_price>>
    /\ show_history' = TRUE
    /\ prediction_made' = TRUE
    /\ prediction_error' = FALSE
    /\ UNCHANGED <<processor_speed, ram_size, storage_capacity, model_price>>

PredictionError_advances ==
    /\ PredictAvailable
    /\ prediction_error' = TRUE
    /\ price_box' = <<>>
    /\ prediction_made' = TRUE
    /\ UNCHANGED <<history, show_history, processor_speed, ram_size,
                   storage_capacity, model_price>>
\* Predict Price pressed and model.predict raises: the except branch
PredictionError ==
    /\ PredictAvailable
    /\ prediction_error' = TRUE
    /\ price_box' = <<>>
    /\ UNCHANGED <<history, show_history, prediction_made, processor_speed,
                   ram_size, storage_capacity, model_price>>

PredictAgain_keeps_shown ==
    /\ AfterPredictionOptions
    /\ prediction_made' = FALSE
    /\ price_box' = <<>>
    /\ prediction_error' = FALSE
    /\ UNCHANGED <<history, show_history, processor_speed, ram_size,
                   storage_capacity, model_price>>
PredictAgain_clears ==
    /\ AfterPredictionOptions
    /\ prediction_made' = FALSE
    /\ show_history' = FALSE
    /\ history' = <<>>
    /\ price_box' = <<>>
    /\ prediction_error' = FALSE
    /\ UNCHANGED <<processor_speed, ram_size, storage_capacity, model_price>>
\* Predict Again pressed
PredictAgain ==
    /\ AfterPredictionOptions
    /\ prediction_made' = FALSE
    /\ show_history' = FALSE
    /\ price_box' = <<>>
    /\ prediction_error' = FALSE
    /\ UNCHANGED <<history, processor_speed, ram_size, storage_capacity, model_price>>

\* History pressed
ToggleHistory ==
    /\ AfterPredictionOptions
    /\ show_history' = ~show_history
    /\ price_box' = <<>>
    /\ prediction_error' = FALSE
    /\ UNCHANGED <<history, prediction_made, processor_speed, ram_size,
                   storage_capacity, model_price>>

ClearHistory_resets ==
    /\ ClearHistoryAvailable
    /\ history' = <<>>
    /\ show_history' = FALSE
    /\ prediction_made' = FALSE
    /\ price_box' = <<>>
    /\ prediction_error' = FALSE
    /\ UNCHANGED <<processor_speed, ram_size, storage_capacity, model_price>>
\* Clear History pressed
ClearHistory ==
    /\ ClearHistoryAvailable
    /\ history' = <<>>
    /\ show_history' = FALSE
    /\ price_box' = <<>>
    /\ prediction_error' = FALSE
    /\ UNCHANGED <<prediction_made, processor_speed, ram_size, storage_capacity, model_price>>

Next ==
    \/ ChangeInputs
    \/ PredictPrice
    \/ PredictionError
    \/ PredictAgain
    \/ ToggleHistory
    \/ ClearHistory

Spec == Init /\ [][Next]_vars

----------------------------------------------------------------------------
\* The pricing function over its whole domain: any slider setting, a range of
\* baselines, and the Predict Price handler applied to it

CalcInit ==
    /\ history = <<>>
    /\ show_history = FALSE
    /\ prediction_made = FALSE
    /\ processor_speed \in ProcessorValues
    /\ ram_size \in RamValues
    /\ storage_capacity \in StorageValues
    /\ model_price \in CalcBaselines
    /\ price_box = <<>>
    /\ prediction_error = FALSE

CalcNext ==
    \/ PredictPrice
    \/ PredictionError

CalcSpec == CalcInit /\ [][CalcNext]_vars

----------------------------------------------------------------------------
\* Properties

TypeOK ==
    /\ show_history \in BOOLEAN
    /\ prediction_made \in BOOLEAN
    /\ prediction_error \in BOOLEAN
    /\ processor_speed \in ProcessorValues
    /\ ram_size \in RamValues
    /\ storage_capacity \in StorageValues
    /\ Len(history) <= MaxHistory
    /\ Len(price_box) <= 1

\* the run that just finished was a successful Predict Price taken in Idle
PredictStep == ~prediction_made /\ price_box' # <<>>

\* the run that just finished was Predict Again
PredictAgainStep == prediction_made /\ ~prediction_made'

\* the run that just finished was Clear History
ClearStep == history # <<>> /\ history' = <<>>

\* C1: for every slider setting and every baseline, negative ones included,
\* calculate_enhanced_price returns at least 8000, and so does the Price of
\* every record in the history and the price shown in the price box.
C1_PriceFloor ==
    /\ calculate_enhanced_price(processor_speed, ram_size, storage_capacity) >= 8000
    /\ \A i \in 1..Len(history) : history[i].Price >= 8000
    /\ \A i \in 1..Len(price_box) : price_box[i] >= 8000

C1_Witness ==
    /\ model_price < 0
    /\ Len(history) = 1
    /\ history[1].Price = 8000
    /\ price_box = <<8000>>

\* C2: calculate_enhanced_price is max(baseline + (processor - 2.5)*1200 +
\* (memory - 8)*750 + (storage - 512)/512*1800, 8000) (stated here in tenths
\* of a rupee); at the anchor (2.5, 8, 512) it is max(baseline, 8000); with
\* baseline 50000 the inputs (3.5, 8, 512), (2.5, 16, 512), (2.5, 8, 1024)
\* give 51200, 56000, 51800; (1.0, 4, 128) with baseline 1000 gives 8000.
\* The price box of a successful prediction shows that value.
C2_Formula ==
    LET price == calculate_enhanced_price(processor_speed, ram_size, storage_capacity)
        raw10 == 10 * model_price + 1200 * processor_speed - 30000
                 + 7500 * ram_size - 60000
                 + (18000 * storage_capacity - 9216000) \div 512
        at(p, r, s) == processor_speed = p /\ ram_size = r /\ storage_capacity = s
    IN /\ (18000 * storage_capacity - 9216000) % 512 = 0
       /\ 10 * price = Max(raw10, 80000)
       /\ at(25, 8, 512) => price = Max(model_price, 8000)
       /\ (model_price = 50000 /\ at(25, 8, 512)) => price = 50000
       /\ (model_price = 50000 /\ at(35, 8, 512)) => price = 51200
       /\ (model_price = 50000 /\ at(25, 16, 512)) => price = 56000
       /\ (model_price = 50000 /\ at(25, 8, 1024)) => price = 51800
       /\ (model_price = 1000 /\ at(10, 4, 128)) => price = 8000
       /\ price_box # <<>> => price_box[1] = price

C2_Witness ==
    /\ model_price = 1000
    /\ processor_speed = 10 /\ ram_size = 4 /\ storage_capacity = 128
    /\ price_box = <<8000>>

\* C3: for a fixed baseline, raising the processor speed, the memory size or
\* the storage capacity alone (the other two held fixed) never lowers the
\* price calculate_enhanced_price returns.
C3_Monotone ==
    LET price == calculate_enhanced_price(processor_speed, ram_size, storage_capacity)
    IN /\ \A p \in ProcessorValues :
            p >= processor_speed =>
                calculate_enhanced_price(p, ram_size, storage_capacity) >= price
       /\ \A r \in RamValues :
            r >= ram_size =>
                calculate_enhanced_price(processor_speed, r, storage_capacity) >= price
       /\ \A s \in StorageValues :
            s >= storage_capacity =>
                calculate_enhanced_price(processor_speed, ram_size, s) >= price

\* a prediction at the floor, from which more storage lifts the price off the floor
C3_Witness ==
    /\ price_box = <<8000>>
    /\ \E s \in StorageValues :
         /\ s > storage_capacity
         /\ calculate_enhanced_price(processor_speed, ram_size, s) > 8000
    /\ \E p \in ProcessorValues :
         /\ p > processor_speed
         /\ calculate_enhanced_price(p, ram_size, storage_capacity) = 8000

\* C4: whatever the user did before, the history section shows at most 5
\* records; when it is shown they are the min(5, len(history)) records
\* appended last, the newest first.
C4_DisplayWindow ==
    /\ Len(DisplayedHistory) <= 5
    /\ HistoryDisplayed =>
         /\ Len(DisplayedHistory) = Min(5, Len(history))
         /\ \A i \in 1..Len(DisplayedHistory) :
              DisplayedHistory[i] = history[Len(history) + 1 - i]
    /\ ~HistoryDisplayed => DisplayedHistory = <<>>

C4_Witness ==
    /\ HistoryDisplayed
    /\ Len(history) > 5
    /\ Len(DisplayedHistory) = 5
    /\ history[1] # history[Len(history)]
    /\ DisplayedHistory[1] # DisplayedHistory[5]

\* C5: a successful Predict Price taken in Idle appends exactly one record,
\* made of the current slider values and the computed price, after the
\* earlier records, which stay as they were, and leaves prediction_made and
\* show_history true.
C5_PredictAppends ==
    [][PredictStep =>
        /\ Len(history') = Len(history) + 1
        /\ SubSeq(history', 1, Len(history)) = history
        /\ history'[Len(history')] =
             [Processor |-> processor_speed, RAM |-> ram_size,
              Storage |-> storage_capacity,
              Price |-> calculate_enhanced_price(processor_speed, ram_size,
                                                 storage_capacity)]
        /\ history'[Len(history')].Price = price_box'[1]
        /\ prediction_made'
        /\ show_history']_vars

C5_Witness ==
    /\ price_box # <<>>
    /\ prediction_made
    /\ show_history
    /\ Len(history) >= 3
    /\ history[Len(history)] # history[1]
    /\ history[Len(history)].Processor = processor_speed

\* C6: when the baseline prediction raises during Predict Price, no record is
\* appended, prediction_made stays false, show_history keeps its value and
\* the Predict Price button is still there for a retry.
C6_ErrorKeepsIdle ==
    [][prediction_error' =>
        /\ ~prediction_made
        /\ history' = history
        /\ ~prediction_made'
        /\ show_history' = show_history
        /\ PredictAvailable']_vars

C6_Witness ==
    /\ prediction_error
    /\ ~prediction_made
    /\ price_box = <<>>
    /\ Len(history) >= 1

\* C7: Predict Again sets prediction_made and show_history to false and
\* leaves the history as it was; the next successful prediction shows the
\* earlier records again, below the new one.
C7_PredictAgainKeepsHistory ==
    /\ [][PredictAgainStep =>
            /\ ~show_history'
            /\ history' = history]_vars
    /\ [][PredictStep =>
            \A i \in 1..Min(4, Len(history)) :
                DisplayedHistory'[i + 1] = history[Len(history) + 1 - i]]_vars

C7_Witness ==
    /\ ~prediction_made
    /\ ~show_history
    /\ ~prediction_error
    /\ Len(history) >= 2

\* C8: after Clear History the history is empty, show_history is false, the
\* history section shows nothing, and prediction_made is what it was before.
C8_ClearFrame ==
    [][ClearStep =>
        /\ ~show_history'
        /\ DisplayedHistory' = <<>>
        /\ ~HistoryDisplayed'
        /\ prediction_made' = prediction_made]_vars

C8_Witness ==
    /\ history = <<>>
    /\ prediction_made
    /\ ~show_history

\* C9 as stated: Clear History can be triggered in any controller state, in
\* Idle as in Result, with the history hidden as with the history visible
\* (taken here only over the states that have a record to clear).
C9_ClearAlwaysAvailable ==
    history # <<>> => ClearHistoryAvailable /\ ENABLED ClearHistory

\* C9 amended: Clear History can be triggered exactly when the history is
\* non-empty and visible, which happens only in Result; the history is
\* emptied from such states only, and there the action empties it.
C9_ClearOnlyWhenVisible ==
    /\ [](ClearHistoryAvailable <=>
            (prediction_made /\ show_history /\ history # <<>>))
    /\ []((ENABLED ClearHistory) <=>
            (prediction_made /\ show_history /\ history # <<>>))
    /\ [][ClearStep => (prediction_made /\ show_history)]_vars
    /\ [][ClearHistory => history' = <<>>]_vars

\* the history was cleared in Result and the History button pressed afterwards:
\* show_history is true, yet there is no Clear History button
C9_Witness ==
    /\ history = <<>>
    /\ prediction_made
    /\ show_history
    /\ ~ClearHistoryAvailable

\* C10: between user actions show_history implies prediction_made; the
\* History button exists only in Result, Predict Price only while
\* prediction_made is false; every successful prediction starts in Idle and
\* ends in Result, and only Predict Again leads from Result back to Idle.
C10_HistoryOnlyInResult ==
    /\ [](show_history => prediction_made)
    /\ []((ENABLED ToggleHistory) => prediction_made)
    /\ []((ENABLED PredictPrice) => ~prediction_made)
    /\ [][Len(history') > Len(history) =>
            (~prediction_made /\ prediction_made')]_vars
    /\ [][PredictAgainStep => PredictAgain]_vars

C10_Witness ==
    /\ show_history
    /\ prediction_made
    /\ Len(history) >= 2
    /\ price_box # <<>>

====
